---- MODULE Spec2Model ----
(***************************************************************************)
(* A model of the Notes App (src/script.js): the NotesApp class, its       *)
(* localStorage slot, the part of the DOM it writes (the notes container,  *)
(* the textarea, the transient .message element) and its setTimeout        *)
(* timers.                                                                 *)
(*                                                                         *)
(* Strings are sequences of one-character strings, so that trim,           *)
(* toLowerCase, includes and escapeHtml are computed character by          *)
(* character.  A JSON text is a sequence of tokens.                        *)
(***************************************************************************)
EXTENDS Integers, Sequences, FiniteSets, TLC

(***************************************************************************)
(* Bounds of the model.                                                    *)
(***************************************************************************)
\* most notes the list is grown to by saveNote
MaxNotes == 2
\* most pending timers at which a user action is still taken
MaxTimers == 2
\* Date.now() ranges over Radix .. Radix + MaxTicks
MaxTicks == 0
\* Math.random() ranges over k/36 for k in 0 .. MaxRnd
MaxRnd == 1

\* the radix of toString(36) in generateId
Radix == 36

VARIABLES
    phase,          \* "boot" before window.onload, then "ready" or "crashed"
    listeners,      \* bindEvents has run: click and keydown are bound
    notes,          \* this.notes
    localStorage,   \* the 'notesApp' slot: [has, value]
    notesContainer, \* children of #notesContainer
    noteInput,      \* this.noteInput.value
    body,           \* the .message elements attached to document.body
    timers,         \* pending setTimeout callbacks, in scheduling order
    trace           \* the most recent operation of NotesApp and its effects

vars == <<phase, listeners, notes, localStorage, notesContainer, noteInput,
          body, timers, trace>>

(***************************************************************************)
(* Strings                                                                 *)
(***************************************************************************)
IsSpace(c) == c = " "

RECURSIVE TrimStart(_)
TrimStart(s) ==
    IF s # <<>> /\ IsSpace(Head(s)) THEN TrimStart(Tail(s)) ELSE s

RECURSIVE TrimEnd(_)
TrimEnd(s) ==
    IF s # <<>> /\ IsSpace(s[Len(s)])
    THEN TrimEnd(SubSeq(s, 1, Len(s) - 1))
    ELSE s

\* the input taken as it is, where trim is meant
NoTrim(s) == s

\* String.prototype.trim
Trim(s) == TrimEnd(TrimStart(s))

LowerChar(c) == IF c = "A" THEN "a" ELSE c

\* the string with its case kept
KeepCase(s) == s

\* String.prototype.toLowerCase
ToLowerCase(s) == [i \in 1..Len(s) |-> LowerChar(s[i])]

\* String.prototype.includes
Includes(s, q) ==
    \E i \in 0..(Len(s) - Len(q)) : SubSeq(s, i + 1, i + Len(q)) = q

EscapeChar(c) ==
    CASE c = "<" -> <<"&", "l", "t", ";">>
      [] c = ">" -> <<"&", "g", "t", ";">>
      [] c = "&" -> <<"&", "a", "m", "p", ";">>
      [] OTHER   -> <<c>>

\* the text put into the markup as it is
NoEscape(text) == text

\* escapeHtml: textContent in, innerHTML out
RECURSIVE escapeHtml(_)
escapeHtml(text) ==
    IF text = <<>> THEN <<>>
    ELSE EscapeChar(Head(text)) \o escapeHtml(Tail(text))

(***************************************************************************)
(* generateId                                                              *)
(***************************************************************************)
Digits36 ==
    <<"0", "1", "2", "3", "4", "5", "6", "7", "8", "9", "a", "b", "c", "d",
      "e", "f", "g", "h", "i", "j", "k", "l", "m", "n", "o", "p", "q", "r",
      "s", "t", "u", "v", "w", "x", "y", "z">>

\* Number.prototype.toString(36) of a natural number
RECURSIVE IntToString36(_)
IntToString36(n) ==
    IF n < Radix THEN <<Digits36[n + 1]>>
    ELSE IntToString36(n \div Radix) \o <<Digits36[(n % Radix) + 1]>>

\* toString(36) of the fraction k/36: "0" for k = 0, else "0." and one digit
FracToString36(k) ==
    IF k = 0 THEN <<"0">> ELSE <<"0", ".", Digits36[k + 1]>>

\* String.prototype.substr(2)
Substr2(s) == SubSeq(s, 3, Len(s))

\* the values Date.now() takes: all of one width in base 36, as the
\* millisecond clock is (eight digits from 1972 to 2059)
Times == Radix..(Radix + MaxTicks)

\* the values Math.random() takes, as numerators over 36
Randoms == 0..MaxRnd

generateId(now, rnd) == IntToString36(now) \o Substr2(FracToString36(rnd))

IdSpace == {generateId(t, r) : t \in Times, r \in Randoms}

(***************************************************************************)
(* Notes and their JSON text                                               *)
(***************************************************************************)
\* a note object; timestamp and dateCreated are written once and never read
\* by any operation modelled here
Note(id, content) == [type |-> "object", id |-> id, content |-> content]

\* the JSON value null as an element of an array
NullElem == [type |-> "null", id |-> <<>>, content |-> <<>>]

Tok(t) == [t |-> t, id |-> <<>>, content |-> <<>>]

ElemToken(e) ==
    IF e.type = "object"
    THEN [t |-> "{}", id |-> e.id, content |-> e.content]
    ELSE Tok("null")

TokenElem(k) ==
    IF k.t = "{}" THEN Note(k.id, k.content) ELSE NullElem

\* a stringify that drops the last element
JSON_stringifyShort(ns) ==
    <<Tok("[")>> \o [i \in 1..(Len(ns) - 1) |-> ElemToken(ns[i])] \o <<Tok("]")>>

\* JSON.stringify of an array: "[", one token per element, "]"
JSON_stringify(ns) ==
    <<Tok("[")>> \o [i \in 1..Len(ns) |-> ElemToken(ns[i])] \o <<Tok("]")>>

\* JSON.parse of a text that is an array or is no JSON at all:
\* [ok |-> FALSE] stands for the SyntaxError it throws
JSON_parse(text) ==
    LET n == Len(text)
        wellFormed ==
            /\ n >= 2
            /\ text[1].t = "["
            /\ text[n].t = "]"
            /\ \A i \in 2..(n - 1) : text[i].t \in {"{}", "null"}
    IN  IF wellFormed
        THEN [ok |-> TRUE, value |-> [i \in 1..(n - 2) |-> TokenElem(text[i + 1])]]
        ELSE [ok |-> FALSE, value |-> <<>>]

\* push where unshift is meant
pushNote(ns, note) == Append(ns, note)

\* Array.prototype.unshift (line 81)
unshift(ns, note) == <<note>> \o ns

\* this.notes.filter(note => note.id !== noteId) (line 106)
removeNote(ns, noteId) ==
    LET Keep(note) == note.id # noteId
    IN  SelectSeq(ns, Keep)

\* localStorage.getItem('notesApp') is truthy
Truthy(ls) == ls.has /\ ls.value # <<>>

\* loadNotes: the value of this.notes after it, from this.notes = ns
loadNotes(ns, ls) ==
    IF Truthy(ls)
    THEN LET p == JSON_parse(ls.value)
         IN  IF p.ok THEN p.value ELSE <<>>
    ELSE ns

\* a setItem that writes nothing
setItemNothing(ls, ns, ok) == ls

\* a setItem that loses the old value when it fails
setItemLossy(ls, ns, ok) ==
    IF ok THEN [has |-> TRUE, value |-> JSON_stringify(ns)]
    ELSE [has |-> FALSE, value |-> <<>>]

\* localStorage.setItem('notesApp', JSON.stringify(ns)); ok is FALSE when
\* setItem throws (quota exceeded, storage unavailable)
setItem(ls, ns, ok) ==
    IF ok THEN [has |-> TRUE, value |-> JSON_stringify(ns)] ELSE ls

(***************************************************************************)
(* The notes container                                                     *)
(***************************************************************************)
NoNotesYet == <<"No notes yet. Add your first note above!">>
NoNotesFound == <<"No notes found matching your search.">>

Placeholder(text) ==
    [cls |-> "empty-state", id |-> <<>>, html |-> text, removing |-> FALSE]

\* createNoteElement, of a note object
createNoteElement(note) ==
    [cls |-> "note", id |-> note.id, html |-> escapeHtml(note.content),
     removing |-> FALSE]

\* the index of the first element that is no object, or Len + 1
FirstBad(ns) ==
    IF \E i \in 1..Len(ns) : ns[i].type # "object"
    THEN CHOOSE i \in 1..Len(ns) :
            /\ ns[i].type # "object"
            /\ \A j \in 1..(i - 1) : ns[j].type = "object"
    ELSE Len(ns) + 1

\* the forEach loop of showNotes and displayFilteredNotes: createNoteElement
\* throws a TypeError on the first element that is null, and the elements
\* before it are already appended
AppendAll(ns) ==
    LET k == FirstBad(ns)
    IN  [threw |-> k <= Len(ns),
         container |-> [i \in 1..(k - 1) |-> createNoteElement(ns[i])]]

showEmptyState == <<Placeholder(NoNotesYet)>>

showNotes(ns) ==
    IF Len(ns) = 0
    THEN [threw |-> FALSE, container |-> showEmptyState]
    ELSE AppendAll(ns)

displayFilteredNotes(filtered) ==
    IF Len(filtered) = 0
    THEN [threw |-> FALSE, container |-> <<Placeholder(NoNotesFound)>>]
    ELSE AppendAll(filtered)

\* document.querySelector(`[data-note-id="${noteId}"]`): 0 when there is none
QueryNote(container, noteId) ==
    LET hits == {i \in 1..Len(container) :
                    container[i].cls = "note" /\ container[i].id = noteId}
    IN  IF hits = {} THEN 0 ELSE CHOOSE i \in hits : \A j \in hits : i <= j

(***************************************************************************)
(* Transient messages and timers                                           *)
(***************************************************************************)
Timer(kind, id, node) == [kind |-> kind, id |-> id, node |-> node]

\* delays of the two kinds of timer, in milliseconds
DeleteDelay == 300
DismissDelay == 3000

Delay(t) == IF t.kind = "dismiss" THEN DismissDelay ELSE DeleteDelay

\* a timer may fire when no timer scheduled before it is due before it:
\* every earlier timer with a delay not longer than its own has fired
Fireable(ts, i) ==
    /\ i \in 1..Len(ts)
    /\ \A j \in 1..(i - 1) : Delay(ts[j]) > Delay(ts[i])

RemoveAt(s, i) == SubSeq(s, 1, i - 1) \o SubSeq(s, i + 1, Len(s))

NodesInUse(m) ==
    {m.body[i].node : i \in 1..Len(m.body)}
        \cup {m.timers[i].node : i \in 1..Len(m.timers)}

\* document.createElement('div'): a node that is no node still referenced
FreshNode(m) ==
    CHOOSE n \in 1..(Cardinality(NodesInUse(m)) + 1) :
        /\ n \notin NodesInUse(m)
        /\ \A k \in 1..(n - 1) : k \in NodesInUse(m)

\* a showMessage that leaves the message already shown in place
showMessageStacking(m, message, type) ==
    LET node == FreshNode(m)
    IN  [body |-> Append(m.body, [node |-> node, type |-> type, text |-> message]),
         timers |-> Append(m.timers, Timer("dismiss", <<>>, node)),
         notices |-> Append(m.notices, type)]

\* showMessage on m = [body, timers, notices]
showMessage(m, message, type) ==
    LET node == FreshNode(m)
        cleared == IF m.body # <<>> THEN Tail(m.body) ELSE m.body
    IN  [body |-> Append(cleared, [node |-> node, type |-> type, text |-> message]),
         timers |-> Append(m.timers, Timer("dismiss", <<>>, node)),
         notices |-> Append(m.notices, type)]

\* saveToLocalStorage on m, with the new value of the storage slot
saveToLocalStorage(m, ok) ==
    IF ok THEN m
    ELSE showMessage(m, "Error saving notes. Storage might be full.", "error")

\* what an operation did: the answer to confirm() (FALSE when it asked
\* nothing), the outcome of its call of setItem ("none" when it made none) and
\* the kinds of the messages it showed, in order
Effects(op, confirmed, write, notices) ==
    [op |-> op, confirmed |-> confirmed, write |-> write, notices |-> notices]

NoEffects(op) == Effects(op, FALSE, "none", <<>>)

(***************************************************************************)
(* Inputs                                                                  *)
(***************************************************************************)
\* texts the user types into the textarea (it is empty when the page opens
\* and after clearInput)
Inputs == { <<" ">>, <<" ", "a", " ">>, <<"A", "<">> }

\* queries searchNotes is called with
Queries == { <<>>, <<" ">>, <<"a">>, <<"A">>, <<"<">> }

\* what the storage slot holds when the page is first opened: nothing, a text
\* that is no JSON, or the JSON text [null]; the texts saveToLocalStorage
\* writes are met again after Reload
InitialStorage ==
    { [has |-> FALSE, value |-> <<>>],
      [has |-> TRUE, value |-> <<Tok("?")>>],
      [has |-> TRUE, value |-> JSON_stringify(<<NullElem>>)] }

(***************************************************************************)
(* The state machine                                                       *)
(***************************************************************************)
\* the page is opened; the constructor (line 21) has set this.notes = []
Init ==
    /\ phase = "boot"
    /\ listeners = FALSE
    /\ notes = <<>>
    /\ localStorage \in InitialStorage
    /\ notesContainer = <<>>
    /\ noteInput = <<>>
    /\ body = <<>>
    /\ timers = <<>>
    /\ trace = NoEffects("boot")

\* window.onload: new NotesApp(), that is init(): loadNotes, showNotes,
\* bindEvents.  An exception thrown by showNotes leaves init, the constructor
\* and the onload handler: bindEvents is not reached and notesApp stays
\* undefined.
Onload ==
    /\ phase = "boot"
    /\ LET ns == loadNotes(notes, localStorage)
           shown == showNotes(ns)
       IN  /\ notes' = ns
           /\ notesContainer' = shown.container
           /\ listeners' = ~shown.threw
           /\ phase' = IF shown.threw THEN "crashed" ELSE "ready"
           /\ trace' = NoEffects("init")
    /\ UNCHANGED <<localStorage, noteInput, body, timers>>

\* the user reloads the page: everything but the storage slot starts anew
Reload ==
    /\ phase # "boot"
    /\ phase' = "boot"
    /\ listeners' = FALSE
    /\ notes' = <<>>
    /\ notesContainer' = <<>>
    /\ noteInput' = <<>>
    /\ body' = <<>>
    /\ timers' = <<>>
    /\ trace' = NoEffects("boot")
    /\ UNCHANGED localStorage

\* the user edits the textarea; the keydown listener (lines 51-55) calls
\* nothing unless the key is Ctrl+Enter, which is SaveNote
TypeInput(text) ==
    /\ phase = "ready"
    /\ noteInput # text
    /\ noteInput' = text
    /\ UNCHANGED <<phase, listeners, notes, localStorage, notesContainer,
                   body, timers, trace>>

\* saveNote, from the click or the Ctrl+Enter listener
SaveNote(now, rnd, ok) ==
    /\ listeners
    /\ Len(timers) < MaxTimers
    /\ LET noteText == Trim(noteInput)
           m0 == [body |-> body, timers |-> timers, notices |-> <<>>]
       IN  IF noteText = <<>>
           THEN LET m1 == showMessage(m0, "Please enter a note before adding!", "error")
                IN  /\ body' = m1.body
                    /\ timers' = m1.timers
                    /\ trace' = Effects("saveNote", FALSE, "none", m1.notices)
                    /\ UNCHANGED <<notes, localStorage, notesContainer, noteInput>>
           ELSE LET note == Note(generateId(now, rnd), noteText)
                    ns == unshift(notes, note)
                    m1 == saveToLocalStorage(m0, ok)
                    shown == showNotes(ns)
                    m2 == showMessage(m1, "Note added successfully!", "success")
                IN  /\ Len(notes) < MaxNotes
                    /\ notes' = ns
                    /\ localStorage' = setItem(localStorage, ns, ok)
                    /\ notesContainer' = shown.container
                    /\ noteInput' = <<>>
                    /\ body' = m2.body
                    /\ timers' = m2.timers
                    /\ trace' = Effects("saveNote", FALSE,
                                        IF ok THEN "ok" ELSE "fail", m2.notices)
    /\ UNCHANGED <<phase, listeners>>

\* a delete that does not ask
proceedsUnasked(confirmed, element) == element # 0

\* the two conditions of deleteNote (lines 97 and 101): confirm() answered
\* yes and querySelector found the element
proceeds(confirmed, element) == confirmed /\ element # 0

\* deleteNote(noteId), from a delete button's onclick or from any caller of
\* the global notesApp; confirmed is the answer to confirm()
DeleteNote(noteId, confirmed) ==
    /\ phase = "ready"
    /\ Len(timers) < MaxTimers
    /\ LET i == QueryNote(notesContainer, noteId)
       IN  IF proceeds(confirmed, i)
           THEN /\ notesContainer' = [notesContainer EXCEPT ![i].removing = TRUE]
                /\ timers' = Append(timers, Timer("delete", noteId, 0))
           ELSE UNCHANGED <<notesContainer, timers>>
    /\ trace' = Effects("deleteNote", confirmed, "none", <<>>)
    /\ UNCHANGED <<phase, listeners, notes, localStorage, noteInput, body>>

\* the callback deleteNote passed to setTimeout (lines 105-110)
DeleteTimer(i, ok) ==
    /\ Fireable(timers, i)
    /\ timers[i].kind = "delete"
    /\ LET noteId == timers[i].id
           ns == removeNote(notes, noteId)
           m0 == [body |-> body, timers |-> RemoveAt(timers, i), notices |-> <<>>]
           m1 == saveToLocalStorage(m0, ok)
           shown == showNotes(ns)
           m2 == showMessage(m1, "Note deleted successfully!", "success")
       IN  /\ notes' = ns
           /\ localStorage' = setItem(localStorage, ns, ok)
           /\ notesContainer' = shown.container
           /\ body' = m2.body
           /\ timers' = m2.timers
           /\ trace' = Effects("deleteTimer", FALSE,
                               IF ok THEN "ok" ELSE "fail", m2.notices)
    /\ UNCHANGED <<phase, listeners, noteInput>>

\* a dismissal that starts the fade but never schedules the removal
DismissTimerForgets(i) ==
    /\ Fireable(timers, i)
    /\ timers[i].kind = "dismiss"
    /\ timers' = RemoveAt(timers, i)
    /\ trace' = NoEffects("dismissTimer")
    /\ UNCHANGED <<phase, listeners, notes, localStorage, notesContainer,
                   noteInput, body>>

\* the callback showMessage passed to setTimeout (lines 250-255)
DismissTimer(i) ==
    /\ Fireable(timers, i)
    /\ timers[i].kind = "dismiss"
    /\ LET node == timers[i].node
           attached == \E k \in 1..Len(body) : body[k].node = node
           rest == RemoveAt(timers, i)
       IN  timers' = IF attached
                     THEN Append(rest, Timer("remove", <<>>, node))
                     ELSE rest
    /\ trace' = NoEffects("dismissTimer")
    /\ UNCHANGED <<phase, listeners, notes, localStorage, notesContainer,
                   noteInput, body>>

\* an inner callback that removes whichever message is shown
RemoveTimerAny(i) ==
    /\ Fireable(timers, i)
    /\ timers[i].kind = "remove"
    /\ body' = IF body # <<>> THEN Tail(body) ELSE body
    /\ timers' = RemoveAt(timers, i)
    /\ trace' = NoEffects("removeTimer")
    /\ UNCHANGED <<phase, listeners, notes, localStorage, notesContainer,
                   noteInput>>

\* the inner callback () => messageDiv.remove() (line 253)
RemoveTimer(i) ==
    /\ Fireable(timers, i)
    /\ timers[i].kind = "remove"
    /\ LET node == timers[i].node
           Other(el) == el.node # node
       IN  body' = SelectSeq(body, Other)
    /\ timers' = RemoveAt(timers, i)
    /\ trace' = NoEffects("removeTimer")
    /\ UNCHANGED <<phase, listeners, notes, localStorage, notesContainer,
                   noteInput>>

\* a search that keeps the filtered list as the list
SearchNotesInPlace(query) ==
    /\ phase = "ready"
    /\ LET Match(note) == Includes(ToLowerCase(note.content), ToLowerCase(query))
           found == IF Trim(query) = <<>> THEN notes ELSE SelectSeq(notes, Match)
           shown == IF Trim(query) = <<>>
                    THEN showNotes(found)
                    ELSE displayFilteredNotes(found)
       IN  /\ notes' = found
           /\ notesContainer' = shown.container
    /\ trace' = NoEffects("searchNotes")
    /\ UNCHANGED <<phase, listeners, localStorage, noteInput, body, timers>>

\* searchNotes(query), from any caller of the global notesApp
SearchNotes(query) ==
    /\ phase = "ready"
    /\ LET Match(note) == Includes(ToLowerCase(note.content), ToLowerCase(query))
           shown == IF Trim(query) = <<>>
                    THEN showNotes(notes)
                    ELSE displayFilteredNotes(SelectSeq(notes, Match))
       IN  notesContainer' = shown.container
    /\ trace' = NoEffects("searchNotes")
    /\ UNCHANGED <<phase, listeners, notes, localStorage, noteInput, body,
                   timers>>

Next ==
    \/ Onload
    \/ Reload
    \/ \E text \in Inputs : TypeInput(text)
    \/ \E now \in Times, rnd \in Randoms, ok \in BOOLEAN : SaveNote(now, rnd, ok)
    \/ \E noteId \in IdSpace, confirmed \in BOOLEAN : DeleteNote(noteId, confirmed)
    \/ \E i \in 1..Len(timers), ok \in BOOLEAN : DeleteTimer(i, ok)
    \/ \E i \in 1..Len(timers) : DismissTimer(i)
    \/ \E i \in 1..Len(timers) : RemoveTimer(i)
    \/ \E query \in Queries : SearchNotes(query)

Spec == Init /\ [][Next]_vars

(***************************************************************************)
(* Steps of the operations, for the properties below                       *)
(***************************************************************************)
SaveNoteStep ==
    \E now \in Times, rnd \in Randoms, ok \in BOOLEAN : SaveNote(now, rnd, ok)

DeleteTimerStep == \E i \in 1..Len(timers), ok \in BOOLEAN : DeleteTimer(i, ok)

\* s is empty or holds white space only
Blank(s) == \A i \in 1..Len(s) : s[i] = " "

Spaces(n) == [i \in 1..n |-> " "]

\* c is s without its leading and trailing white space
IsTrimOf(c, s) ==
    /\ c # <<>> => (c[1] # " " /\ c[Len(c)] # " ")
    /\ \E i, j \in 0..Len(s) : s = Spaces(i) \o c \o Spaces(j)

(***************************************************************************)
(* C1: a saveNote whose input is not blank adds exactly one note, puts it  *)
(* first with the trimmed input as its content, and leaves the notes that  *)
(* were there behind it in their order (so "a" then "A<" gives "A<", "a"). *)
(***************************************************************************)
C1_CreatePrepends ==
    [][(SaveNoteStep /\ ~Blank(noteInput)) =>
          /\ Len(notes') = Len(notes) + 1
          /\ notes'[1].type = "object"
          /\ IsTrimOf(notes'[1].content, noteInput)
          /\ Tail(notes') = notes]_vars

C1_Witness ==
    /\ trace.op = "saveNote"
    /\ trace.write = "ok"
    /\ Len(notes) = 2
    /\ notes[1].content = <<"A", "<">>
    /\ notes[2].content = <<"a">>

(***************************************************************************)
(* C2: a saveNote whose input is blank changes neither the list nor the    *)
(* storage slot, calls setItem not at all, and shows one message, of kind  *)
(* error.                                                                  *)
(***************************************************************************)
C2_BlankRejected ==
    [][(SaveNoteStep /\ Blank(noteInput)) =>
          /\ notes' = notes
          /\ localStorage' = localStorage
          /\ trace'.write = "none"
          /\ trace'.notices = <<"error">>
          /\ Len(body') = 1
          /\ body'[1].type = "error"]_vars

C2_Witness ==
    /\ trace.op = "saveNote"
    /\ trace.write = "none"
    /\ noteInput = <<" ">>
    /\ Len(notes) = 1
    /\ Len(body) = 1
    /\ body[1].text = "Please enter a note before adding!"

(***************************************************************************)
(* C3: the timer of a confirmed delete removes exactly one note, the one   *)
(* with the id it was given, and leaves the rest in order; when no note    *)
(* has that id the list is unchanged.                                      *)
(***************************************************************************)
\* the id captured by the delete timer that can fire
FiredId ==
    timers[CHOOSE i \in 1..Len(timers) :
              Fireable(timers, i) /\ timers[i].kind = "delete"].id

HasId(ns, noteId) == \E k \in 1..Len(ns) : ns[k].id = noteId

C3_DeleteRemovesExactlyOne ==
    [][DeleteTimerStep =>
          IF HasId(notes, FiredId)
          THEN /\ Len(notes') = Len(notes) - 1
               /\ \E k \in 1..Len(notes) :
                     /\ notes[k].id = FiredId
                     /\ notes' = RemoveAt(notes, k)
          ELSE notes' = notes]_vars

(***************************************************************************)
(* C4: a deleteNote whose confirmation is declined changes nothing: not    *)
(* the list, the storage slot, the container, the message, the timers.     *)
(***************************************************************************)
DeclinedStep == \E noteId \in IdSpace : DeleteNote(noteId, FALSE)

C4_DeclineNoOp ==
    [][DeclinedStep =>
          UNCHANGED <<notes, localStorage, notesContainer, body, timers>>]_vars

C4_Witness ==
    /\ trace.op = "deleteNote"
    /\ ~trace.confirmed
    /\ Len(notes) = 2
    /\ \E i \in 1..Len(notesContainer) : notesContainer[i].cls = "note"
    /\ body # <<>>

(***************************************************************************)
(* C5: after a write that succeeded, loadNotes in a fresh session (whose   *)
(* list is the constructor's []) yields the list as it is now, in content  *)
(* and order.                                                              *)
(***************************************************************************)
C5_RoundTrip ==
    (phase = "ready" /\ trace.write = "ok") =>
        loadNotes(<<>>, localStorage) = notes

C5_Witness ==
    /\ phase = "ready"
    /\ trace.write = "ok"
    /\ Len(notes) = 2
    /\ notes[1].content # notes[2].content
    /\ loadNotes(<<>>, localStorage) = notes

(***************************************************************************)
(* C6: no two notes of the list have the same id.                          *)
(***************************************************************************)
C6_UniqueIds ==
    \A i, j \in 1..Len(notes) : i # j => notes[i].id # notes[j].id

(***************************************************************************)
(* C7: a step of the running application that changes the list calls      *)
(* setItem, and after a call of setItem that succeeded the storage slot    *)
(* holds the text of the whole list as it is now.                          *)
(***************************************************************************)
C7_WholeListWrite ==
    [][/\ (phase = "ready" /\ phase' = "ready" /\ notes' # notes) =>
              trace'.write \in {"ok", "fail"}
       /\ trace'.write = "ok" =>
              /\ localStorage'.has
              /\ localStorage'.value = JSON_stringify(notes')]_vars

C7_Witness ==
    /\ trace.op = "deleteTimer"
    /\ trace.write = "ok"
    /\ Len(notes) = 1
    /\ localStorage.value = JSON_stringify(notes)

(***************************************************************************)
(* C8: whatever the storage slot holds when the page is opened, init runs  *)
(* to its end (the container is rendered and the listeners are bound), and *)
(* when the slot is missing or holds no list of notes the list is empty.   *)
(***************************************************************************)
\* the slot holds the text of an array of note objects
HoldsNoteList(ls) ==
    /\ ls.has
    /\ Len(ls.value) >= 2
    /\ ls.value[1].t = "["
    /\ ls.value[Len(ls.value)].t = "]"
    /\ \A i \in 2..(Len(ls.value) - 1) : ls.value[i].t = "{}"

C8_LoadNeverAborts ==
    trace.op = "init" =>
        /\ phase = "ready"
        /\ listeners
        /\ ~HoldsNoteList(localStorage) =>
              (notes = <<>> /\ notesContainer = <<Placeholder(NoNotesYet)>>)

(***************************************************************************)
(* C9: when setItem fails in saveNote or in the delete timer, the change   *)
(* of the list stays, the container is rebuilt from the changed list, and  *)
(* the storage slot keeps what it held.                                    *)
(***************************************************************************)
\* the container shows the list ns, as a full render does
Displays(container, ns) ==
    IF ns = <<>>
    THEN container = <<Placeholder(NoNotesYet)>>
    ELSE /\ Len(container) = Len(ns)
         /\ \A i \in 1..Len(ns) :
               /\ container[i].cls = "note"
               /\ container[i].id = ns[i].id
               /\ ~container[i].removing

C9_FailedWriteKeepsMutation ==
    [][/\ (SaveNoteStep /\ trace'.write = "fail") =>
              /\ Len(notes') = Len(notes) + 1
              /\ Tail(notes') = notes
              /\ Displays(notesContainer', notes')
              /\ localStorage' = localStorage
       /\ (DeleteTimerStep /\ trace'.write = "fail") =>
              /\ ~HasId(notes', FiredId)
              /\ HasId(notes, FiredId) => Len(notes') < Len(notes)
              /\ \A k \in 1..Len(notes) :
                    notes[k].id # FiredId =>
                        \E j \in 1..Len(notes') : notes'[j] = notes[k]
              /\ Displays(notesContainer', notes')
              /\ localStorage' = localStorage]_vars

C9_Witness ==
    /\ trace.op = "deleteTimer"
    /\ trace.write = "fail"
    /\ Len(notes) = 1
    /\ localStorage.has
    /\ Len(localStorage.value) = 4
    /\ Displays(notesContainer, notes)

(***************************************************************************)
(* C10: when setItem fails in saveNote or in the delete timer, the message *)
(* on the page when the handler returns is the error message.              *)
(***************************************************************************)
C10_FailureNoticeVisible ==
    [][((SaveNoteStep \/ DeleteTimerStep) /\ trace'.write = "fail") =>
          /\ Len(body') = 1
          /\ body'[1].type = "error"]_vars

(***************************************************************************)
(* C11: when the delete timer fires and no note has the id it captured,    *)
(* nothing happens: list and storage slot are unchanged and no message is  *)
(* shown.                                                                  *)
(***************************************************************************)
C11_AbsentIdSilent ==
    [][(DeleteTimerStep /\ ~HasId(notes, FiredId)) =>
          /\ notes' = notes
          /\ localStorage' = localStorage
          /\ trace'.notices = <<>>
          /\ body' = body]_vars

(***************************************************************************)
(* C12: searchNotes changes neither the list nor the storage slot, for any *)
(* query in any state; of the page only the container changes.             *)
(***************************************************************************)
SearchStep ==
    /\ trace'.op = "searchNotes"
    /\ \E query \in Queries : SearchNotes(query)

C12_SearchReadOnly ==
    [][SearchStep =>
          UNCHANGED <<notes, localStorage, noteInput, body, timers>>]_vars

C12_Witness ==
    /\ trace.op = "searchNotes"
    /\ Len(notes) = 2
    /\ Len(notesContainer) = 1
    /\ notesContainer[1].cls = "note"
    /\ localStorage.value = JSON_stringify(notes)

(***************************************************************************)
(* C13: searchNotes shows exactly the notes whose content holds the query  *)
(* as a substring, letters compared without case, in the order of the      *)
(* list; a blank query shows the whole list as showNotes does.             *)
(***************************************************************************)
SameLetter(c, d) == c = d \/ {c, d} = {"a", "A"}

\* q occurs in s, letters compared without case
Occurs(q, s) ==
    \E i \in 0..(Len(s) - Len(q)) :
        \A k \in 1..Len(q) : SameLetter(s[i + k], q[k])

\* the container shows the notes of ns at the indices in M, in their order
ShowsSubset(container, ns, M) ==
    /\ Len(container) = Cardinality(M)
    /\ \E f \in [1..Len(container) -> M] :
          /\ \A a, b \in 1..Len(container) : a < b => f[a] < f[b]
          /\ \A a \in 1..Len(container) :
                /\ container[a].cls = "note"
                /\ container[a].id = ns[f[a]].id
                /\ container[a].html = createNoteElement(ns[f[a]]).html

C13_SearchFilters ==
    [][\A query \in Queries :
          (trace'.op = "searchNotes" /\ SearchNotes(query)) =>
              IF Blank(query)
              THEN Displays(notesContainer', notes)
              ELSE LET M == {i \in 1..Len(notes) : Occurs(query, notes[i].content)}
                   IN  IF M = {}
                       THEN notesContainer' = <<Placeholder(NoNotesFound)>>
                       ELSE ShowsSubset(notesContainer', notes, M)]_vars

C13_Witness ==
    /\ trace.op = "searchNotes"
    /\ Len(notes) = 2
    /\ notes[1].content = <<"a">>
    /\ notes[2].content = <<"A", "<">>
    /\ notes[1].id # notes[2].id
    /\ Len(notesContainer) = 1
    /\ notesContainer[1].id = notes[2].id

(***************************************************************************)
(* C14: at most one message is on the page; a handler that shows a message *)
(* leaves exactly one, a new node of the kind it showed last, and the      *)
(* message that was there before is gone.                                  *)
(***************************************************************************)
C14_SingleNotice ==
    [][/\ Len(body) <= 1
       /\ Len(body') <= 1
       /\ (SaveNoteStep \/ DeleteTimerStep) =>
              /\ Len(body') = 1
              /\ body'[1].type = trace'.notices[Len(trace'.notices)]
              /\ \A k \in 1..Len(body) : body[k].node # body'[1].node]_vars

C14_Witness ==
    /\ trace.op = "saveNote"
    /\ trace.notices = <<"success">>
    /\ Len(body) = 1
    /\ Len(timers) = 2
    /\ timers[1].kind = "dismiss"
    /\ timers[1].node # body[1].node
    /\ timers[2].kind = "dismiss"
    /\ timers[2].node = body[1].node

(***************************************************************************)
(* C16: the markup of every note shown, by showNotes or by searchNotes,    *)
(* holds the note's content escaped (no raw < or >, and unescaping gives   *)
(* the content), while the content kept in the list is the trimmed input   *)
(* as typed.                                                               *)
(***************************************************************************)
StartsWith(s, p) == Len(s) >= Len(p) /\ SubSeq(s, 1, Len(p)) = p

Drop(s, n) == SubSeq(s, n + 1, Len(s))

\* the text a browser shows for the markup s
RECURSIVE Unescape(_)
Unescape(s) ==
    IF s = <<>> THEN <<>>
    ELSE IF StartsWith(s, <<"&", "l", "t", ";">>) THEN <<"<">> \o Unescape(Drop(s, 4))
    ELSE IF StartsWith(s, <<"&", "g", "t", ";">>) THEN <<">">> \o Unescape(Drop(s, 4))
    ELSE IF StartsWith(s, <<"&", "a", "m", "p", ";">>) THEN <<"&">> \o Unescape(Drop(s, 5))
    ELSE <<Head(s)>> \o Unescape(Tail(s))

C16_ContentEscaped ==
    /\ \A i \in 1..Len(notesContainer) :
          notesContainer[i].cls = "note" =>
              /\ \A k \in 1..Len(notesContainer[i].html) :
                    notesContainer[i].html[k] \notin {"<", ">"}
              /\ \E k \in 1..Len(notes) :
                    /\ notes[k].type = "object"
                    /\ notes[k].id = notesContainer[i].id
                    /\ Unescape(notesContainer[i].html) = notes[k].content
    /\ \A k \in 1..Len(notes) :
          notes[k].type = "object" =>
              \E text \in Inputs : IsTrimOf(notes[k].content, text)

C16_Witness ==
    /\ trace.op = "searchNotes"
    /\ Len(notes) = 2
    /\ Len(notesContainer) = 1
    /\ notesContainer[1].html = <<"A", "&", "l", "t", ";">>
    /\ \E k \in 1..2 : notes[k].content = <<"A", "<">>

(***************************************************************************)
(* C19: after every saveNote that adds a note, every delete timer and the  *)
(* start of the page, the container shows the list: its notes in order, or *)
(* the "no notes" placeholder exactly when the list is empty.              *)
(***************************************************************************)
C19_DisplayMatchesList ==
    [][((SaveNoteStep /\ ~Blank(noteInput)) \/ DeleteTimerStep \/ Onload) =>
          Displays(notesContainer', notes')]_vars

(***************************************************************************)
(* C20: a message's timers touch that message only: the dismiss timer      *)
(* leaves the page as it is and schedules the removal of its own node, and *)
(* only while that node is on the page; the removal timer leaves every     *)
(* other message on the page.                                              *)
(***************************************************************************)
\* the node captured by the timer of the given kind that can fire
FiredNode(kind) ==
    timers[CHOOSE i \in 1..Len(timers) :
              Fireable(timers, i) /\ timers[i].kind = kind].node

OnPage(node, els) == \E k \in 1..Len(els) : els[k].node = node

C20_TimerOwnsNotice ==
    [][/\ (trace'.op = "removeTimer" /\ \E i \in 1..Len(timers) : RemoveTimer(i)) =>
              /\ ~OnPage(FiredNode("remove"), body')
              /\ \A k \in 1..Len(body) :
                    body[k].node # FiredNode("remove") =>
                        \E j \in 1..Len(body') : body'[j] = body[k]
       /\ (trace'.op = "dismissTimer" /\ \E i \in 1..Len(timers) : DismissTimer(i)) =>
              /\ body' = body
              /\ \A j \in 1..Len(timers') :
                    timers'[j].kind = "remove" =>
                        \/ \E k \in 1..Len(timers) : timers[k] = timers'[j]
                        \/ /\ timers'[j].node = FiredNode("dismiss")
                           /\ OnPage(timers'[j].node, body)
              /\ OnPage(FiredNode("dismiss"), body) =>
                    \E j \in 1..Len(timers') :
                        timers'[j] = Timer("remove", <<>>, FiredNode("dismiss"))]_vars

C20_Witness ==
    /\ trace.op = "removeTimer"
    /\ Len(body) = 1
    /\ \E j \in 1..Len(timers) :
          timers[j].kind = "dismiss" /\ timers[j].node = body[1].node

(***************************************************************************)
(* C17: delete timers that are pending do not disturb one another or a     *)
(* saveNote: a saveNote made meanwhile prepends its note and leaves the    *)
(* pending timers as they are; a delete timer that fires leaves the other  *)
(* pending timers as they are, removes at most one note, and keeps every   *)
(* note with another id, in order.                                         *)
(***************************************************************************)
PendingDeletes(ts) ==
    LET IsDelete(t) == t.kind = "delete"
    IN  SelectSeq(ts, IsDelete)

C17_TimersIndependent ==
    [][/\ (SaveNoteStep /\ ~Blank(noteInput) /\ PendingDeletes(timers) # <<>>) =>
              /\ Tail(notes') = notes
              /\ PendingDeletes(timers') = PendingDeletes(timers)
       /\ DeleteTimerStep =>
              /\ PendingDeletes(timers') = Tail(PendingDeletes(timers))
              /\ Len(notes') >= Len(notes) - 1
              /\ \E k \in 0..Len(notes) :
                    notes' = IF k = 0 THEN notes ELSE RemoveAt(notes, k)]_vars

(***************************************************************************)
(* C18: a deleteNote that is confirmed for a note of the list always goes  *)
(* on: when the handler returns, the timer that removes that note is       *)
(* pending, whatever the container shows.                                  *)
(***************************************************************************)
C18_ConfirmedDeleteScheduled ==
    [][\A noteId \in IdSpace :
          (/\ trace'.op = "deleteNote"
           /\ DeleteNote(noteId, TRUE)
           /\ HasId(notes, noteId)) =>
              /\ Len(timers') = Len(timers) + 1
              /\ timers'[Len(timers')] = Timer("delete", noteId, 0)]_vars

(***************************************************************************)
(* Timers that are due fire: the event loop runs the callbacks given to    *)
(* setTimeout, unless the page is left first.  The fairness asked for is   *)
(* only that, while timers are pending, one that may fire does.            *)
(***************************************************************************)
DismissTimerStep == \E i \in 1..Len(timers) : DismissTimer(i)

RemoveTimerStep == \E i \in 1..Len(timers) : RemoveTimer(i)

TimerStep == DeleteTimerStep \/ DismissTimerStep \/ RemoveTimerStep

\* the life of a message does not depend on the notes: the fair behaviours
\* are those of a list of at most one note (no timer step leaves them)
NoticeNext == Next /\ Len(notes') <= 1

FairSpec ==
    /\ Init
    /\ [][NoticeNext]_vars
    /\ WF_vars(TimerStep)

(***************************************************************************)
(* C15: every message that is on the page is off the page at some later    *)
(* time: replaced by a newer one, or taken away by its own timers.  A node *)
(* that is on the page leads to its being off the page, for every node:    *)
(* that is, every node is off the page again and again.                    *)
(***************************************************************************)
\* the nodes a message can be: the one shown and those timers still hold
Nodes == 1..(MaxTimers + 2)

NodesCovered ==
    \A k \in 1..Len(body) : body[k].node \in Nodes

C15_NoticeEventuallyGone ==
    /\ []NodesCovered
    /\ \A node \in Nodes : []<>(~OnPage(node, body))

C15_Witness ==
    /\ trace.op = "removeTimer"
    /\ body = <<>>
    /\ timers = <<>>
    /\ Len(notes) = 1

====
